---------------------------- MODULE Spec2Model ----------------------------
(***************************************************************************)
(* Model of mm.c: an explicit-free-list allocator with boundary tags,      *)
(* first-fit placement and eager coalescing, on top of a contiguous heap   *)
(* handed out by mem_sbrk.                                                 *)
(*                                                                         *)
(* The heap is modelled word by word: mem maps every 4-byte aligned        *)
(* address of the arena to the word stored there.  Headers, footers and    *)
(* the prev/next links of free blocks are words of mem, read and written   *)
(* at the addresses the macros of mm.c compute.  The build is the one the  *)
(* header comment of mm.c describes (words of bits 31..0: size_t and       *)
(* pointers are one word wide); unsigned arithmetic wraps at 2^WordBits.   *)
(* An access that is misaligned or falls outside [HeapLo, brk) is          *)
(* undefined behaviour and is recorded in the ub flag.                     *)
(***************************************************************************)
EXTENDS Integers, Sequences, FiniteSets, TLC

\* ------------------------------------------------------------ constants
WSIZE == 4
DSIZE == 8
CHUNKSIZE == 32
OVERHEAD == 32

\* ---------------------------------------------------------------- bounds
\* width of size_t / pointers in bits (scaled down; arithmetic is mod Word)
WordBits == 10
\* capacity of the arena behind mem_sbrk, in doublewords
MaxHeapDwords == 27
\* the size up to which the provider grants growth in the runs that mix all
\* calls, in doublewords
GrantDwords == 22
\* largest k for which a request of 8*k+2 bytes is issued
MaxReq == 1
\* fuel of the list and heap walks (longer walks than any well-formed heap has)
MaxWalk == 12

Word == 2 ^ WordBits
MaxHeap == MaxHeapDwords * DSIZE
\* first address of the arena; 8-byte aligned, non-null
HeapLo == 16
NULL == 0
\* (void *)-1, the failure value of mem_sbrk
SbrkFail == Word - 1

Addrs == { a \in HeapLo .. (HeapLo + MaxHeap - 1) : a % WSIZE = 0 }

\* unsigned arithmetic of the machine word
W(x) == x % Word

VARIABLES
    mem,         \* the arena, word address -> word
    brk,         \* mem_brk: the heap is [HeapLo, brk)
    heap_listp,  \* static char *heap_listp
    free_listp,  \* static char *free_listp
    status,      \* "uninit", "ready", "initfailed", "exited", "undefined"
    live,        \* pointers handed out and not yet freed: set of <<ptr, requested size>>
    last         \* the last call made: operation, arguments, result

vars == <<mem, brk, heap_listp, free_listp, status, live, last>>

\* ---------------------------------------------------------- memory access
\* the allocator state operators work on
\* lw: the writes made so far through the links of other blocks (see LinkWrite)
St(m, b, f) == [mem |-> m, brk |-> b, flp |-> f, ub |-> FALSE, lw |-> {}]

InHeap(s, p) == p % WSIZE = 0 /\ p >= HeapLo /\ p + WSIZE <= s.brk

GET(s, p) == IF InHeap(s, p) THEN s.mem[p] ELSE 0

\* a read of the word at p: undefined when p is not a word of the heap
RD(s, p) == IF InHeap(s, p) THEN s ELSE [s EXCEPT !.ub = TRUE]

PUT(s, p, val) ==
    IF InHeap(s, p) THEN [s EXCEPT !.mem[p] = val] ELSE [s EXCEPT !.ub = TRUE]

PACK(size, alloc) == IF size % 2 = 1 THEN size ELSE size + alloc

GET_SIZE(v) == v - (v % 8)
GET_ALLOC(v) == v % 2

HDRP(bp) == W(bp - WSIZE)
FTRP(s, bp) == W(bp + GET_SIZE(GET(s, HDRP(bp))) - DSIZE)
NEXT_BLKP(s, bp) == W(bp + GET_SIZE(GET(s, W(bp - WSIZE))))
PREV_BLKP(s, bp) == W(bp - GET_SIZE(GET(s, W(bp - DSIZE))))

NEXT_FREE(s, bp) == GET(s, W(bp + 2 * WSIZE))
PREV_FREE(s, bp) == GET(s, bp)

\* writes the boundary tags of block bp: the header, then the footer at the
\* place FTRP computes from the header just written
PutFtr(s, bp, val) == PUT(s, FTRP(s, bp), val)
SetTags(s, bp, val) == PutFtr(PUT(s, HDRP(bp), val), bp, val)

\* ------------------------------------------------------- layout of the heap
\* the first ordinary block: where the first extend_heap put its block
FirstBlkOf(hl) == W(hl + 2 * OVERHEAD)
\* the block that carries the prologue header, and ends the free list
PrologueOf(hl) == W(hl + DSIZE)

SizeOf(s, bp) == GET_SIZE(GET(s, HDRP(bp)))
IsFreeIn(s, bp) == GET_ALLOC(GET(s, HDRP(bp))) = 0

\* the ordinary blocks met by scanning the heap from bp with NEXT_BLKP
RECURSIVE HeapWalk(_, _, _)
HeapWalk(s, bp, fuel) ==
    IF fuel = 0 \/ ~InHeap(s, HDRP(bp)) \/ SizeOf(s, bp) = 0 THEN <<>>
    ELSE <<bp>> \o HeapWalk(s, NEXT_BLKP(s, bp), fuel - 1)

Range(q) == { q[i] : i \in 1 .. Len(q) }

BlocksOf(s, hl) == HeapWalk(s, FirstBlkOf(hl), MaxWalk)

\* what the word at address a is in the scan of s from block bp: "hdr" the
\* header of a block, "pay" a payload word of an allocated block, "free" a
\* word a free block holds behind its header, "none" any other word
RECURSIVE LinkClassFrom(_, _, _, _)
LinkClassFrom(s, bp, a, fuel) ==
    IF fuel = 0 \/ ~InHeap(s, HDRP(bp)) \/ SizeOf(s, bp) = 0 \/ a < HDRP(bp)
    THEN "none"
    ELSE IF a = HDRP(bp) THEN "hdr"
    ELSE IF a < bp + SizeOf(s, bp) - DSIZE
    THEN (IF IsFreeIn(s, bp) THEN "free" ELSE "pay")
    ELSE LinkClassFrom(s, NEXT_BLKP(s, bp), a, fuel - 1)

\* the same over the whole heap, with the prologue and the epilogue header;
\* the heap starts at HeapLo, where mm_init puts heap_listp
LinkClass(s, a) ==
    IF a = W(HeapLo + WSIZE) \/ a = W(s.brk - WSIZE) THEN "hdr"
    ELSE LinkClassFrom(s, FirstBlkOf(HeapLo), a, MaxWalk)

\* the record of a write through the link field at address a, made in state s
LinkWrite(s, a) == [a |-> a, inheap |-> InHeap(s, a), at |-> LinkClass(s, a)]

\* t: the state after the write to address a made in state s
Logged(t, s, a) == [t EXCEPT !.lw = @ \cup {LinkWrite(s, a)}]

\* ------------------------------------------------------- free list manager
SetPrevOfHead(s, bp) == Logged(PUT(s, s.flp, bp), s, s.flp)
SetHead(s, bp) == [s EXCEPT !.flp = bp]

\* mutant: the head of the list is not moved to the inserted block
freelist_nohead(s, bp) ==
    PUT(SetPrevOfHead(PUT(s, W(bp + 2 * WSIZE), s.flp), bp), bp, NULL)

freelist(s, bp) ==
    SetHead(PUT(SetPrevOfHead(PUT(s, W(bp + 2 * WSIZE), s.flp), bp), bp, NULL), bp)

\* mutant: the head is not advanced when the first block of the list is removed
UnlinkPrev_nohead(s, bp) ==
    IF PREV_FREE(s, bp) # NULL
    THEN Logged(PUT(s, W(PREV_FREE(s, bp) + 2 * WSIZE), NEXT_FREE(s, bp)),
                s, W(PREV_FREE(s, bp) + 2 * WSIZE))
    ELSE s

\* the if/else of delete_block
UnlinkPrev(s, bp) ==
    IF PREV_FREE(s, bp) # NULL
    THEN Logged(PUT(s, W(PREV_FREE(s, bp) + 2 * WSIZE), NEXT_FREE(s, bp)),
                s, W(PREV_FREE(s, bp) + 2 * WSIZE))
    ELSE [s EXCEPT !.flp = NEXT_FREE(s, bp)]

\* mutant: the prev link of the successor is left as it was
UnlinkNext_none(s, bp) == s

\* the last statement of delete_block
UnlinkNext(s, bp) ==
    Logged(PUT(s, NEXT_FREE(s, bp), PREV_FREE(s, bp)), s, NEXT_FREE(s, bp))

delete_block(s, bp) ==
    UnlinkNext(UnlinkPrev(RD(RD(s, bp), W(bp + 2 * WSIZE)), bp), bp)

\* ---------------------------------------------------------------- coalesce
\* the reads coalesce makes before it branches
coalesce_reads(s, bp) ==
    RD(RD(RD(RD(RD(s, W(bp - DSIZE)), HDRP(PREV_BLKP(s, bp))),
                FTRP(s, PREV_BLKP(s, bp))), HDRP(bp)), HDRP(NEXT_BLKP(s, bp)))

\* Case 4 after both neighbours were removed from the list
coalesce_case4(s, bp, size) ==
    [s |-> freelist(SetTags(s, PREV_BLKP(s, bp), PACK(size, 0)), PREV_BLKP(s, bp)),
     ret |-> PREV_BLKP(s, bp)]

\* delete_block(NEXT_BLKP(bp)) of Case 4
coalesce_case4_next(s, bp, size) ==
    coalesce_case4(delete_block(s, NEXT_BLKP(s, bp)), bp, size)

\* mutant: the predecessor is never merged
coalesce_cases_noprev(s, bp, prev, next, prev_alloc, next_alloc, size) ==
    IF next_alloc THEN
        [s |-> freelist(s, bp), ret |-> bp]
    ELSE
        [s |-> freelist(SetTags(delete_block(s, next), bp,
                                PACK(W(size + GET_SIZE(GET(s, HDRP(next)))), 0)), bp),
         ret |-> bp]

\* mutant: the successor is never merged
coalesce_cases_nonext(s, bp, prev, next, prev_alloc, next_alloc, size) ==
    IF prev_alloc THEN
        [s |-> freelist(s, bp), ret |-> bp]
    ELSE
        [s |-> freelist(SetTags(delete_block(s, prev), prev,
                                PACK(W(size + GET_SIZE(GET(s, HDRP(prev)))), 0)), prev),
         ret |-> prev]

coalesce_cases(s, bp, prev, next, prev_alloc, next_alloc, size) ==
    IF prev_alloc /\ next_alloc THEN
        [s |-> freelist(s, bp), ret |-> bp]
    ELSE IF prev_alloc /\ ~next_alloc THEN
        [s |-> freelist(SetTags(delete_block(s, next), bp,
                                PACK(W(size + GET_SIZE(GET(s, HDRP(next)))), 0)), bp),
         ret |-> bp]
    ELSE IF ~prev_alloc /\ next_alloc THEN
        [s |-> freelist(SetTags(delete_block(s, prev), prev,
                                PACK(W(size + GET_SIZE(GET(s, HDRP(prev)))), 0)), prev),
         ret |-> prev]
    ELSE
        coalesce_case4_next(delete_block(s, prev), bp,
                            W(size + GET_SIZE(GET(s, HDRP(prev)))
                                   + GET_SIZE(GET(s, HDRP(next)))))

coalesce(s, bp) ==
    coalesce_cases(coalesce_reads(s, bp), bp,
                   PREV_BLKP(s, bp), NEXT_BLKP(s, bp),
                   GET_ALLOC(GET(s, FTRP(s, PREV_BLKP(s, bp)))) = 1
                       \/ PREV_BLKP(s, bp) = bp,
                   GET_ALLOC(GET(s, HDRP(NEXT_BLKP(s, bp)))) = 1,
                   GET_SIZE(GET(s, HDRP(bp))))

\* ------------------------------------------------------- raw heap provider
\* mem_sbrk(incr): the provider either refuses (ok = FALSE, or the arena is
\* exhausted) and returns (void *)-1, or moves the break and returns the old one.
mem_sbrk(s, incr, ok) ==
    IF ok /\ s.brk + incr <= HeapLo + MaxHeap
    THEN [s |-> [s EXCEPT !.brk = s.brk + incr], ret |-> s.brk]
    ELSE [s |-> s, ret |-> SbrkFail]

\* ------------------------------------------------------------- extend_heap
PutEpilogue(s, bp) == PUT(s, HDRP(NEXT_BLKP(s, bp)), PACK(0, 1))

\* mutant: the header of the new block is written at the old break before the
\* result of mem_sbrk is tested
extend_heap_after_writefirst(s, sb, size) ==
    IF sb.ret = SbrkFail
    THEN [s |-> PUT(s, HDRP(s.brk), PACK(size, 0)), ret |-> NULL]
    ELSE coalesce(PutEpilogue(SetTags(sb.s, sb.ret, PACK(size, 0)), sb.ret), sb.ret)

\* s: the state before the call, sb: what mem_sbrk returned
extend_heap_after(s, sb, size) ==
    IF sb.ret = SbrkFail
    THEN [s |-> s, ret |-> NULL]
    ELSE coalesce(PutEpilogue(SetTags(sb.s, sb.ret, PACK(size, 0)), sb.ret), sb.ret)

extend_heap_size(words) ==
    IF words % 2 = 1 THEN W((words + 1) * WSIZE) ELSE W(words * WSIZE)

extend_heap(s, words, ok) ==
    extend_heap_after(s, mem_sbrk(s, extend_heap_size(words), ok),
                      extend_heap_size(words))

\* ------------------------------------------------------------------- place
\* the split branch once the front block is tagged and unlinked
place_rest(s, bp2, rest) == coalesce(SetTags(s, bp2, PACK(rest, 0)), bp2).s

place_split(s, bp, rest) == place_rest(s, NEXT_BLKP(s, bp), rest)

\* mutant: a block that is not split is tagged with the adjusted size, not
\* with its own
place_cases_tagasize(s, bp, asize, csize) ==
    IF W(csize - asize) >= OVERHEAD
    THEN place_split(delete_block(SetTags(s, bp, PACK(asize, 1)), bp), bp,
                     W(csize - asize))
    ELSE delete_block(SetTags(s, bp, PACK(asize, 1)), bp)

\* mutant: a block is split whenever a doubleword is left over
place_cases_minsplit(s, bp, asize, csize) ==
    IF W(csize - asize) >= DSIZE
    THEN place_split(delete_block(SetTags(s, bp, PACK(asize, 1)), bp), bp,
                     W(csize - asize))
    ELSE delete_block(SetTags(s, bp, PACK(csize, 1)), bp)

place_cases(s, bp, asize, csize) ==
    IF W(csize - asize) >= OVERHEAD
    THEN place_split(delete_block(SetTags(s, bp, PACK(asize, 1)), bp), bp,
                     W(csize - asize))
    ELSE delete_block(SetTags(s, bp, PACK(csize, 1)), bp)

place(s, bp, asize) ==
    place_cases(RD(s, HDRP(bp)), bp, asize, GET_SIZE(GET(s, HDRP(bp))))

\* the states place passes through up to the removal of its block from the
\* free list: on entry, after the header PUT, after the footer PUT, after
\* delete_block; val is the word the branch taken packs
place_trace_with(s, bp, val) ==
    << s,
       PUT(s, HDRP(bp), val),
       SetTags(s, bp, val),
       delete_block(SetTags(s, bp, val), bp) >>

place_trace(s, bp, asize) ==
    place_trace_with(s, bp,
        IF W(GET_SIZE(GET(s, HDRP(bp))) - asize) >= OVERHEAD
        THEN PACK(asize, 1)
        ELSE PACK(GET_SIZE(GET(s, HDRP(bp))), 1))

\* ---------------------------------------------------------------- find_fit
\* the loop of find_fit from list position bp; a walk that outruns its fuel
\* does not terminate
RECURSIVE find_fit_from(_, _, _, _)
find_fit_from(s, asize, bp, fuel) ==
    IF fuel = 0 \/ ~InHeap(s, HDRP(bp)) THEN [ub |-> TRUE, ret |-> NULL]
    ELSE IF GET_ALLOC(GET(s, HDRP(bp))) # 0 THEN [ub |-> FALSE, ret |-> NULL]
    ELSE IF asize <= GET_SIZE(GET(s, HDRP(bp))) THEN [ub |-> FALSE, ret |-> bp]
    ELSE IF ~InHeap(s, W(bp + 2 * WSIZE)) THEN [ub |-> TRUE, ret |-> NULL]
    ELSE find_fit_from(s, asize, NEXT_FREE(s, bp), fuel - 1)

\* mutant: best fit, the smallest block of the list that is large enough
RECURSIVE find_fit_best_from(_, _, _, _, _)
find_fit_best_from(s, asize, bp, fuel, best) ==
    IF fuel = 0 \/ ~InHeap(s, HDRP(bp)) THEN [ub |-> TRUE, ret |-> NULL]
    ELSE IF GET_ALLOC(GET(s, HDRP(bp))) # 0 THEN [ub |-> FALSE, ret |-> best]
    ELSE find_fit_best_from(s, asize, NEXT_FREE(s, bp), fuel - 1,
             IF asize <= GET_SIZE(GET(s, HDRP(bp)))
                /\ (best = NULL
                    \/ GET_SIZE(GET(s, HDRP(bp))) < GET_SIZE(GET(s, HDRP(best))))
             THEN bp ELSE best)

find_fit_best(s, asize) == find_fit_best_from(s, asize, s.flp, MaxWalk, NULL)

find_fit(s, asize) == find_fit_from(s, asize, s.flp, MaxWalk)

\* --------------------------------------------------------------- mm_malloc
\* the adjusted block size of a request
AdjustedSize(size) ==
    IF size <= DSIZE THEN DSIZE + OVERHEAD
    ELSE W(DSIZE * (W(size + OVERHEAD + (DSIZE - 1)) \div DSIZE))

MAX(x, y) == IF x > y THEN x ELSE y

\* grow: "none" (provider not called), "ok", "refused"
\* eh: what extend_heap returned
mm_malloc_grown(eh, asize) ==
    IF eh.ret = NULL
    THEN [s |-> eh.s, ret |-> NULL, grow |-> "refused"]
    ELSE [s |-> place(eh.s, eh.ret, asize), ret |-> eh.ret, grow |-> "ok"]

\* mutant: on no fit the heap is always grown by CHUNKSIZE
mm_malloc_fit_chunk(s, asize, ok, ff) ==
    IF ff.ub THEN [s |-> [s EXCEPT !.ub = TRUE], ret |-> NULL, grow |-> "none"]
    ELSE IF ff.ret # NULL
    THEN [s |-> place(s, ff.ret, asize), ret |-> ff.ret, grow |-> "none"]
    ELSE mm_malloc_grown(extend_heap(s, CHUNKSIZE \div WSIZE, ok), asize)

\* ff: what find_fit returned
mm_malloc_fit(s, asize, ok, ff) ==
    IF ff.ub THEN [s |-> [s EXCEPT !.ub = TRUE], ret |-> NULL, grow |-> "none"]
    ELSE IF ff.ret # NULL
    THEN [s |-> place(s, ff.ret, asize), ret |-> ff.ret, grow |-> "none"]
    ELSE mm_malloc_grown(extend_heap(s, MAX(asize, CHUNKSIZE) \div WSIZE, ok), asize)

mm_malloc(s, size, ok) ==
    IF size <= 0 THEN [s |-> s, ret |-> NULL, grow |-> "none"]
    ELSE mm_malloc_fit(s, AdjustedSize(size), ok, find_fit(s, AdjustedSize(size)))

\* ----------------------------------------------------------------- mm_free
mm_free(s, bp) ==
    IF bp = NULL THEN s
    ELSE coalesce(SetTags(RD(s, HDRP(bp)), bp,
                          PACK(GET_SIZE(GET(s, HDRP(bp))), 0)), bp).s

\* ------------------------------------------------------------------ memcpy
\* byte k of the word stored at word address a (little endian)
ByteOf(m, a) == (m[a - (a % WSIZE)] \div (256 ^ (a % WSIZE))) % 256

memcpy(s, dst, src, n) ==
    IF n = 0 THEN s
    ELSE IF ~(dst >= HeapLo /\ dst + n <= s.brk /\ src >= HeapLo /\ src + n <= s.brk)
    THEN [s EXCEPT !.ub = TRUE]
    ELSE
        LET byte(a) == IF a >= dst /\ a < dst + n
                       THEN ByteOf(s.mem, src + (a - dst))
                       ELSE ByteOf(s.mem, a)
        IN  [s EXCEPT !.mem =
                [w \in Addrs |->
                    IF w + WSIZE > dst /\ w < dst + n
                    THEN byte(w) + 256 * byte(w + 1) + 65536 * byte(w + 2)
                         + 16777216 * byte(w + 3)
                    ELSE s.mem[w]]]

\* -------------------------------------------------------------- mm_realloc
\* mutant: the old block is freed before it is copied
mm_realloc_copy_freefirst(s, newp, ptr, size) ==
    memcpy(mm_free(RD(s, HDRP(ptr)), ptr), newp, ptr,
           IF size < GET_SIZE(GET(s, HDRP(ptr)))
           THEN size ELSE GET_SIZE(GET(s, HDRP(ptr))))

\* the copy and the free of mm_realloc; s: the state after mm_malloc
mm_realloc_copy(s, newp, ptr, size) ==
    mm_free(memcpy(RD(s, HDRP(ptr)), newp, ptr,
                   IF size < GET_SIZE(GET(s, HDRP(ptr)))
                   THEN size ELSE GET_SIZE(GET(s, HDRP(ptr)))),
            ptr)

\* mutant: the old block is freed before the process is terminated
mm_realloc_after_freeonfail(m, ptr, size) ==
    IF m.ret = NULL
    THEN [s |-> mm_free(m.s, ptr), ret |-> NULL, grow |-> m.grow, exited |-> TRUE]
    ELSE [s |-> mm_realloc_copy(m.s, m.ret, ptr, size), ret |-> m.ret,
          grow |-> m.grow, exited |-> FALSE]

\* m: what mm_malloc returned; exited: the process was terminated by exit(1)
mm_realloc_after(m, ptr, size) ==
    IF m.ret = NULL
    THEN [s |-> m.s, ret |-> NULL, grow |-> m.grow, exited |-> TRUE]
    ELSE [s |-> mm_realloc_copy(m.s, m.ret, ptr, size), ret |-> m.ret,
          grow |-> m.grow, exited |-> FALSE]

mm_realloc(s, ptr, size, ok) == mm_realloc_after(mm_malloc(s, size, ok), ptr, size)

\* ----------------------------------------------------------------- mm_init
\* mutant: the prologue header is written with the allocated bit clear
mm_init_writes_freeprologue(s, hl) ==
    SetHead(PUT(PUT(PUT(PUT(PUT(PUT(s, hl, 0),
                                    W(hl + WSIZE), PACK(OVERHEAD, 0)),
                                W(hl + DSIZE + WSIZE), 0),
                            W(hl + DSIZE), 0),
                        W(hl + DSIZE), PACK(OVERHEAD, 1)),
                    W(hl + WSIZE + DSIZE), PACK(0, 1)),
            W(hl + DSIZE))

\* mutant: the empty list is a null head instead of the prologue block
mm_init_writes_nullhead(s, hl) ==
    SetHead(PUT(PUT(PUT(PUT(PUT(PUT(s, hl, 0),
                                    W(hl + WSIZE), PACK(OVERHEAD, 1)),
                                W(hl + DSIZE + WSIZE), 0),
                            W(hl + DSIZE), 0),
                        W(hl + DSIZE), PACK(OVERHEAD, 1)),
                    W(hl + WSIZE + DSIZE), PACK(0, 1)),
            NULL)

\* the six PUTs of mm_init and the assignment of free_listp
mm_init_writes(s, hl) ==
    SetHead(PUT(PUT(PUT(PUT(PUT(PUT(s, hl, 0),
                                    W(hl + WSIZE), PACK(OVERHEAD, 1)),
                                W(hl + DSIZE + WSIZE), 0),
                            W(hl + DSIZE), 0),
                        W(hl + DSIZE), PACK(OVERHEAD, 1)),
                    W(hl + WSIZE + DSIZE), PACK(0, 1)),
            W(hl + DSIZE))

\* eh: what extend_heap returned
mm_init_ret(eh, hl) ==
    [s |-> eh.s, hl |-> hl, ret |-> IF eh.ret = NULL THEN -1 ELSE 0]

\* sb: what the first mem_sbrk returned; ret: 0 or -1; hl: the value of heap_listp
mm_init_after(sb, ok2) ==
    IF sb.ret = NULL THEN [s |-> sb.s, hl |-> sb.ret, ret |-> -1]
    ELSE mm_init_ret(extend_heap(mm_init_writes(sb.s, sb.ret),
                                 CHUNKSIZE \div WSIZE, ok2), sb.ret)

\* mutant: the initial region is one word short of a multiple of 8
mm_init_odd(s, ok1, ok2) == mm_init_after(mem_sbrk(s, 2 * OVERHEAD - WSIZE, ok1), ok2)

mm_init(s, ok1, ok2) == mm_init_after(mem_sbrk(s, 2 * OVERHEAD, ok1), ok2)

\* ------------------------------------------------------------ mm_checkheap
\* x: the word the build finds at an address outside the heap
GETX(s, p, x) == IF InHeap(s, p) THEN s.mem[p] ELSE x

mem_heap_lo == HeapLo
mem_heap_hi(s) == s.brk - 1

check_block(s, bp, x) ==
    IF GETX(s, W(bp + 2 * WSIZE), x) < mem_heap_lo
       \/ GETX(s, W(bp + 2 * WSIZE), x) > mem_heap_hi(s) THEN 0
    ELSE IF GETX(s, bp, x) < mem_heap_lo \/ GETX(s, bp, x) > mem_heap_hi(s) THEN 0
    ELSE IF bp % 8 # 0 THEN 0
    ELSE IF GETX(s, HDRP(bp), x)
            # GETX(s, W(bp + GET_SIZE(GETX(s, HDRP(bp), x)) - DSIZE), x) THEN 0
    ELSE 1

RECURSIVE checkheap_from(_, _, _, _)
checkheap_from(s, bp, x, fuel) ==
    IF fuel = 0 THEN 0
    ELSE IF GET_ALLOC(GETX(s, HDRP(bp), x)) # 0 THEN 1
    ELSE IF check_block(s, bp, x) = 0 THEN 0
    ELSE checkheap_from(s, GETX(s, W(bp + 2 * WSIZE), x), x, fuel - 1)

mm_checkheap(s, hl, x) ==
    IF GET_SIZE(GETX(s, HDRP(hl), x)) # OVERHEAD \/ GET_ALLOC(GETX(s, HDRP(hl), x)) = 0
    THEN 0
    ELSE IF check_block(s, hl, x) = 0 THEN 0
    ELSE checkheap_from(s, s.flp, x, MaxWalk)

\* ================================================================ actions
ReqSizes == {0, 1} \cup { 8 * k + 2 : k \in 1 .. MaxReq }
\* requests from the whole range of size_t, up to the largest word
WideSizes == ReqSizes \cup { Word - k : k \in {1, 8, 16, 24, 33, 48} }
\* byte values a client stores in a payload
UserBytes == {90}
\* words the build may hold just outside the heap
OutsideWords == {0, PACK(OVERHEAD, 1), Word - 1}

Ptrs == { e[1] : e \in live }
ReqOf(p) == (CHOOSE e \in live : e[1] = p)[2]

NoCall == [op |-> "none", p |-> NULL, ret |-> 0, grow |-> "none"]

Init ==
    /\ mem = [a \in Addrs |-> 0]
    /\ brk = HeapLo
    /\ heap_listp = NULL
    /\ free_listp = NULL
    /\ status = "uninit"
    /\ live = {}
    /\ last = NoCall

\* the state left by an operation r.s; undefined behaviour ends the run
Commit(s, okStatus) ==
    IF s.ub
    THEN /\ status' = "undefined"
         /\ UNCHANGED <<mem, brk, free_listp>>
    ELSE /\ status' = okStatus
         /\ mem' = s.mem
         /\ brk' = s.brk
         /\ free_listp' = s.flp

Cur == St(mem, brk, free_listp)

InitStep(r, ok1, ok2) ==
    /\ Commit(r.s, IF r.ret = 0 THEN "ready" ELSE "initfailed")
    /\ heap_listp' = r.hl
    /\ last' = [op |-> "init", p |-> NULL, ret |-> r.ret,
                grow |-> IF ~ok1 THEN "refused1"
                         ELSE IF ~ok2 THEN "refused2" ELSE "ok"]
    /\ UNCHANGED live

CallInit ==
    /\ status = "uninit"
    /\ \E ok1 \in BOOLEAN, ok2 \in BOOLEAN : InitStep(mm_init(Cur, ok1, ok2), ok1, ok2)

MallocStep(r, n) ==
    /\ Commit(r.s, "ready")
    /\ live' = IF r.s.ub \/ r.ret = NULL THEN live ELSE live \cup {<<r.ret, n>>}
    /\ last' = [op |-> "malloc", p |-> NULL, ret |-> r.ret, grow |-> r.grow]
    /\ UNCHANGED heap_listp

CallMalloc(sizes) ==
    /\ status = "ready"
    /\ \E n \in sizes, ok \in BOOLEAN : MallocStep(mm_malloc(Cur, n, ok), n)

FreeStep(s, p) ==
    /\ Commit(s, "ready")
    /\ live' = IF s.ub THEN live ELSE { e \in live : e[1] # p }
    /\ last' = [op |-> "free", p |-> p, ret |-> 0, grow |-> "none"]
    /\ UNCHANGED heap_listp

CallFree ==
    /\ status = "ready"
    /\ \E p \in Ptrs \cup {NULL} : FreeStep(mm_free(Cur, p), p)

ReallocStep(r, p, n) ==
    /\ Commit(r.s, IF r.exited THEN "exited" ELSE "ready")
    /\ live' = IF r.s.ub \/ r.exited THEN live
               ELSE { e \in live : e[1] # p } \cup {<<r.ret, n>>}
    /\ last' = [op |-> "realloc", p |-> p, ret |-> r.ret, grow |-> r.grow]
    /\ UNCHANGED heap_listp

CallRealloc(sizes) ==
    /\ status = "ready"
    /\ \E p \in Ptrs, n \in sizes, ok \in BOOLEAN :
         ReallocStep(mm_realloc(Cur, p, n, ok), p, n)

CallCheckheap ==
    /\ status = "ready"
    /\ \E x \in OutsideWords :
         /\ last' = [op |-> "checkheap", p |-> NULL,
                     ret |-> mm_checkheap(Cur, heap_listp, x), grow |-> "none"]
         /\ UNCHANGED <<mem, brk, heap_listp, free_listp, status, live>>

\* the client fills the bytes it asked for with a byte value
UserWrite ==
    /\ status = "ready"
    /\ \E p \in Ptrs, v \in UserBytes :
         LET n == ReqOf(p)
             byte(a) == IF a < p + n THEN v ELSE ByteOf(mem, a)
             filled == [a \in Addrs |->
                          IF a >= p /\ a < p + n
                          THEN byte(a) + 256 * byte(a + 1) + 65536 * byte(a + 2)
                               + 16777216 * byte(a + 3)
                          ELSE mem[a]]
         IN  /\ n > 0
             /\ filled # mem
             /\ mem' = filled
             /\ last' = [op |-> "write", p |-> NULL, ret |-> 0, grow |-> "none"]
             /\ UNCHANGED <<brk, heap_listp, free_listp, status, live>>

\* the provider refuses every request that would take the heap past lim
\* doublewords
GrantedUpTo(lim) == brk' <= HeapLo + lim * DSIZE

MallocGranted == CallMalloc(ReqSizes) /\ GrantedUpTo(GrantDwords)

ReallocGranted == CallRealloc(ReqSizes) /\ GrantedUpTo(GrantDwords)

Next ==
    \/ CallInit
    \/ MallocGranted
    \/ CallFree
    \/ ReallocGranted
    \/ CallCheckheap
    \/ UserWrite

Spec == Init /\ [][Next]_vars

\* Requests from the whole range of size_t.  A run makes at most one request
\* of more than half the address space that is granted, as its last call.
NoHugeLive == \A e \in live : e[2] < Word \div 2

CallMallocWide == NoHugeLive /\ CallMalloc(WideSizes) /\ GrantedUpTo(GrantDwords)

CallFreeWide == NoHugeLive /\ CallFree

NextWide ==
    \/ CallInit
    \/ CallMallocWide
    \/ CallFreeWide

SpecWide == Init /\ [][NextWide]_vars

\* Runs of allocate and free alone, with requests of one size, in which the
\* provider grants the whole arena: the heap grows to four blocks.
FitSizes == {0, 1}

CallMallocFit == CallMalloc(FitSizes)

NextFit ==
    \/ CallInit
    \/ CallMallocFit
    \/ CallFree

SpecFit == Init /\ [][NextFit]_vars

\* ======================================================= views of the heap
\* where that scan stops
RECURSIVE HeapWalkEnd(_, _, _)
HeapWalkEnd(s, bp, fuel) ==
    IF fuel = 0 \/ ~InHeap(s, HDRP(bp)) \/ SizeOf(s, bp) = 0 THEN bp
    ELSE HeapWalkEnd(s, NEXT_BLKP(s, bp), fuel - 1)

\* the members of the free list from bp, following the next links as find_fit does
RECURSIVE ListWalk(_, _, _)
ListWalk(s, bp, fuel) ==
    IF fuel = 0 \/ ~InHeap(s, HDRP(bp)) \/ ~IsFreeIn(s, bp) THEN <<>>
    ELSE <<bp>> \o ListWalk(s, NEXT_FREE(s, bp), fuel - 1)

\* the block at which that walk stops
RECURSIVE ListWalkEnd(_, _, _)
ListWalkEnd(s, bp, fuel) ==
    IF fuel = 0 \/ ~InHeap(s, HDRP(bp)) \/ ~IsFreeIn(s, bp) THEN bp
    ELSE ListWalkEnd(s, NEXT_FREE(s, bp), fuel - 1)

NoDup(q) == \A i, j \in 1 .. Len(q) : i # j => q[i] # q[j]

FreeSeqOf(s) == ListWalk(s, s.flp, MaxWalk)

Blocks == BlocksOf(Cur, heap_listp)
FreeSeq == FreeSeqOf(Cur)
IsFree(bp) == IsFreeIn(Cur, bp)
Size(bp) == SizeOf(Cur, bp)

\* the scan from the first block ends at the epilogue header, the last word
\* of the heap
Tiled ==
    /\ HeapWalkEnd(Cur, FirstBlkOf(heap_listp), MaxWalk) = brk
    /\ GET(Cur, HDRP(brk)) = PACK(0, 1)

\* the list walk ends at the allocated prologue block
ListEndsAtPrologue ==
    ListWalkEnd(Cur, free_listp, MaxWalk) = PrologueOf(heap_listp)

\* ================================================================== claims

\* C1: after a successful init and after every call, a scan of the whole heap
\* from the first ordinary block to the epilogue meets no two adjacent blocks
\* that are both marked free.
C1_NoAdjacentFree ==
    status = "ready" =>
        /\ Tiled
        /\ \A i \in 1 .. Len(Blocks) - 1 :
             ~(IsFree(Blocks[i]) /\ IsFree(Blocks[i + 1]))

\* a first-fit hit was split in the middle of the heap: the remainder lies
\* between the block just allocated and an allocated right neighbour
C1_Witness ==
    /\ status = "ready"
    /\ last.op = "malloc" /\ last.grow = "none" /\ last.ret # NULL
    /\ Len(Blocks) = 3
    /\ Blocks[1] = last.ret
    /\ IsFree(Blocks[2])
    /\ ~IsFree(Blocks[3])

\* C2: the blocks reached from free_listp by the next links, up to the
\* terminator (the allocated prologue block), are pairwise distinct and are
\* exactly the ordinary heap blocks whose header is marked free.
C2_FreeListIsFreeBlocks ==
    status = "ready" =>
        /\ Tiled
        /\ ListEndsAtPrologue
        /\ NoDup(FreeSeq)
        /\ Range(FreeSeq) = { b \in Range(Blocks) : IsFree(b) }

\* two free blocks are on the list after a free
C2_Witness ==
    /\ status = "ready"
    /\ last.op = "free"
    /\ Len(FreeSeq) = 2
    /\ \E b \in Range(Blocks) : ~IsFree(b)

\* C3: a granted request of n bytes gets a block whose size minus header and
\* footer is at least n, for every n of the machine word.
C3_SufficientSize ==
    (status = "ready" /\ last.op = "malloc" /\ last.ret # NULL) =>
        \A e \in live : e[1] = last.ret => Size(last.ret) - DSIZE >= e[2]

\* C4: every pointer handed out is a multiple of 8, and every ordinary block
\* starts at a multiple of 8 and carries a size that is a multiple of 8.
C4_Aligned ==
    status = "ready" =>
        /\ \A p \in Ptrs : p % 8 = 0
        /\ (last.op \in {"malloc", "realloc"} /\ last.ret # NULL) => last.ret % 8 = 0
        /\ Tiled
        /\ \A b \in Range(Blocks) : b % 8 = 0 /\ GET(Cur, HDRP(b)) % 8 \in {0, 1}

\* a first-fit hit behind the first block, split
C4_Witness ==
    /\ status = "ready"
    /\ last.op = "malloc" /\ last.grow = "none" /\ last.ret # NULL
    /\ last.ret # FirstBlkOf(heap_listp)
    /\ IsFree(NEXT_BLKP(Cur, last.ret))

\* C5: the prologue block and every ordinary block have a footer, at the place
\* their own header size gives, that equals the header.
C5_HeaderEqualsFooter ==
    status = "ready" =>
        /\ GET(Cur, HDRP(PrologueOf(heap_listp)))
              = GET(Cur, FTRP(Cur, PrologueOf(heap_listp)))
        /\ \A b \in Range(Blocks) : GET(Cur, HDRP(b)) = GET(Cur, FTRP(Cur, b))

\* C6: mm_checkheap returns 1 on every heap the allocator produces.
C6_CheckheapTrue == last.op = "checkheap" => last.ret = 1

\* C7: when every pointer handed out has been freed again, the heap is one
\* free block from the first ordinary block position to the epilogue, and the
\* free list holds exactly that block.
C7_FreeAllOneBlock ==
    (status = "ready" /\ live = {}) =>
        /\ Blocks = <<FirstBlkOf(heap_listp)>>
        /\ IsFree(FirstBlkOf(heap_listp))
        /\ FirstBlkOf(heap_listp) + Size(FirstBlkOf(heap_listp)) = brk
        /\ GET(Cur, HDRP(brk)) = PACK(0, 1)
        /\ FreeSeq = <<FirstBlkOf(heap_listp)>>
        /\ ListEndsAtPrologue

\* the last of several blocks was freed, after the heap had grown twice
C7_Witness ==
    /\ status = "ready"
    /\ live = {}
    /\ last.op = "free" /\ last.p # NULL
    /\ brk >= HeapLo + 2 * OVERHEAD + CHUNKSIZE + 2 * (DSIZE + OVERHEAD)

\* the allocator state after the step
CurNext == St(mem', brk', free_listp')
\* the size requested for pointer q after the step
ReqOfNext(q) == (CHOOSE e \in live' : e[1] = q)[2]

\* what C8 says of a step that was reallocate(p, n) returning q, where
\* r bytes had been requested for p
ReallocKeeps(p, q, r, n) ==
    n >= r =>
        /\ \A i \in 0 .. r - 1 : ByteOf(mem', q + i) = ByteOf(mem, p + i)
        /\ q \in Range(BlocksOf(CurNext, heap_listp))
        /\ ~IsFreeIn(CurNext, q)
        /\ SizeOf(CurNext, q) - DSIZE >= r
        /\ q + SizeOf(CurNext, q) <= p \/ p + Size(p) <= q
        /\ p \notin { e[1] : e \in live' }
        /\ \E b \in Range(BlocksOf(CurNext, heap_listp)) :
             /\ IsFreeIn(CurNext, b)
             /\ b <= p
             /\ p + Size(p) <= b + SizeOf(CurNext, b)

\* C8: a successful reallocate(p, n) with n not smaller than the size requested
\* for p returns an allocated block disjoint from the old one whose first bytes
\* are the old payload, and leaves the old block free.
C8_ReallocKeepsContents ==
    [][(status = "ready" /\ status' = "ready" /\ last'.op = "realloc")
          => ReallocKeeps(last'.p, last'.ret, ReqOf(last'.p), ReqOfNext(last'.ret))]_vars

\* a block of 10 bytes filled by the client was moved: its last byte arrived,
\* the byte behind it did not
C8_Witness ==
    /\ status = "ready"
    /\ last.op = "realloc" /\ last.ret \in Ptrs
    /\ ReqOf(last.ret) = 10
    /\ \A i \in 0 .. 9 : ByteOf(mem, last.ret + i) = 90
    /\ ByteOf(mem, last.ret + 10) # 90

\* C9: an allocate call whose growth request is refused returns NULL and
\* leaves the heap, the break, the list head and every word of memory as they
\* were.
C9_RefusedMallocNoChange ==
    [][(last'.op = "malloc" /\ last'.grow = "refused")
          => /\ last'.ret = NULL
             /\ status' = "ready"
             /\ UNCHANGED <<mem, brk, heap_listp, free_listp, live>>]_vars

\* no block fitted, the provider refused, and blocks are outstanding
C9_Witness ==
    /\ status = "ready"
    /\ last.op = "malloc" /\ last.grow = "refused" /\ last.ret = NULL
    /\ live # {}
    /\ \E b \in Range(Blocks) : IsFree(b)

\* C10: when the provider refuses either growth request of mm_init, mm_init
\* returns -1 and nothing was written through the failure value.
C10_InitFailureReported ==
    (last.op = "init" /\ last.grow \in {"refused1", "refused2"})
        => (status = "initfailed" /\ last.ret = -1)

\* undefined behaviour arises in no call but an mm_init whose first request
\* was refused
OnlyInitUndefined ==
    status = "undefined" => (last.op = "init" /\ last.grow = "refused1")

\* the pointers a call has handed out: those outstanding and the one the last
\* call returned
HandedOut ==
    Ptrs \cup (IF last.op \in {"malloc", "realloc"} /\ last.ret # NULL
               THEN {last.ret} ELSE {})

\* C11: after a successful init and after every call, the prologue header is
\* PACK(OVERHEAD, 1), the last word of the heap is the epilogue header
\* PACK(0, 1), neither the prologue block nor the epilogue is among the members
\* of the free list or among the pointers handed out, and every free block
\* lies between the first ordinary block position and the epilogue header.
C11_PrologueEpilogue ==
    status = "ready" =>
        /\ GET(Cur, HDRP(PrologueOf(heap_listp))) = PACK(OVERHEAD, 1)
        /\ GET(Cur, W(brk - WSIZE)) = PACK(0, 1)
        /\ PrologueOf(heap_listp) \notin Range(FreeSeq)
        /\ brk \notin Range(FreeSeq)
        /\ PrologueOf(heap_listp) \notin HandedOut
        /\ brk \notin HandedOut
        /\ \A b \in Range(FreeSeq) \cup { c \in Range(Blocks) : IsFree(c) } :
             /\ FirstBlkOf(heap_listp) <= b
             /\ b + Size(b) <= brk

\* the block next to the prologue was freed while the block before the
\* epilogue is free and a block between them is allocated
C11_Witness ==
    /\ status = "ready"
    /\ last.op = "free" /\ last.p = FirstBlkOf(heap_listp)
    /\ Len(Blocks) = 3
    /\ IsFree(Blocks[1]) /\ ~IsFree(Blocks[2]) /\ IsFree(Blocks[3])
    /\ Blocks[3] + Size(Blocks[3]) = brk

\* what C12 says of the old block p when reallocate has terminated the process
OldBlockIntact(p) ==
    /\ ~IsFreeIn(CurNext, p)
    /\ SizeOf(CurNext, p) = Size(p)
    /\ p \notin Range(FreeSeqOf(CurNext))
    /\ p \in { e[1] : e \in live' }
    /\ \A i \in 0 .. Size(p) - DSIZE - 1 : ByteOf(mem', p + i) = ByteOf(mem, p + i)

\* C12: a reallocate whose inner allocate yields NULL (the request is 0, or
\* growth is refused) terminates the process and never returns; at that moment
\* the old block is still allocated, is not on the free list, and its payload
\* is as it was.
C12_ReallocFailureExits ==
    [][(status = "ready" /\ last'.op = "realloc" /\ status' # "undefined")
          => /\ (last'.ret = NULL) = (status' = "exited")
             /\ last'.grow = "refused" => last'.ret = NULL
             /\ last'.ret = NULL => OldBlockIntact(last'.p)]_vars

\* growth was refused inside a reallocate of a block the client had filled
C12_Witness ==
    /\ status = "exited"
    /\ last.op = "realloc" /\ last.grow = "refused" /\ last.ret = NULL
    /\ last.p \in Ptrs
    /\ ByteOf(mem, last.p) = 90
    /\ ~IsFree(last.p)

\* C13: the blocks handed out and not yet freed are blocks of the heap scan
\* marked allocated, pairwise disjoint from header to footer, each between the
\* first ordinary block position and the epilogue header; every block of the
\* scan is one of them or a free block, each block of the scan begins where
\* the one before it ends, and the scan ends at the epilogue.
C13_AllocatedDisjoint ==
    status = "ready" =>
        /\ Tiled
        /\ \A i \in 1 .. Len(Blocks) - 1 :
             Blocks[i + 1] = Blocks[i] + Size(Blocks[i]) /\ Size(Blocks[i]) > 0
        /\ \A p \in Ptrs :
             /\ p \in Range(Blocks)
             /\ ~IsFree(p)
             /\ FirstBlkOf(heap_listp) <= p
             /\ p + Size(p) <= brk
        /\ \A p, q \in Ptrs : p # q => (p + Size(p) <= q \/ q + Size(q) <= p)
        /\ \A b \in Range(Blocks) : IsFree(b) \/ b \in Ptrs

\* two blocks are outstanding after the heap was grown for the second, and a
\* free remainder follows them
C13_Witness ==
    /\ status = "ready"
    /\ last.op = "malloc" /\ last.grow = "ok"
    /\ Cardinality(Ptrs) = 2
    /\ Len(Blocks) = 3
    /\ IsFree(Blocks[3])

\* the positions of the free list whose block is large enough for asize
FitsAt(asize) == { i \in 1 .. Len(FreeSeq) : Size(FreeSeq[i]) >= asize }
\* the earliest of them
FirstFit(asize) ==
    FreeSeq[CHOOSE i \in FitsAt(asize) : \A j \in FitsAt(asize) : i <= j]

\* what C14 says of the result r of allocate in the current state
FirstFitResult(r, asize) ==
    IF FitsAt(asize) # {}
    THEN /\ r.ret = FirstFit(asize)
         /\ r.grow = "none"
         /\ r.s.brk = brk
         /\ ~r.s.ub
    ELSE r.grow \in {"ok", "refused"}

\* C14: in every ready state, an allocate of n > 0 bytes returns the block
\* earliest in free-list order among the list's blocks of at least the
\* adjusted size and leaves the break alone when there is such a block, and
\* calls the provider only when there is none.
C14_FirstFit ==
    status = "ready" =>
        \A n \in ReqSizes \ {0}, ok \in BOOLEAN :
            FirstFitResult(mm_malloc(Cur, n, ok), AdjustedSize(n))

\* allocate took and split a block although a smaller block then further down
\* the list, still free, was large enough
C14_Witness ==
    /\ status = "ready"
    /\ last.op = "malloc" /\ last.grow = "none" /\ last.ret \in Ptrs
    /\ IsFree(NEXT_BLKP(Cur, last.ret))
    /\ \E b \in Range(FreeSeq) :
         /\ b # NEXT_BLKP(Cur, last.ret)
         /\ Size(b) >= AdjustedSize(ReqOf(last.ret))
         /\ Size(b) < Size(last.ret) + Size(NEXT_BLKP(Cur, last.ret))

\* what C15 says of a step in which allocate grew the heap and returned q for
\* a request of n bytes with adjusted size a; eh: what extend_heap returns in
\* the state before the step
GrowthFits(q, n, a, eh) ==
    /\ status' = "ready"
    /\ q # NULL
    /\ FitsAt(a) = {}
    /\ brk' = brk + MAX(a, CHUNKSIZE)
    /\ eh.ret = q
    /\ IsFreeIn(eh.s, q)
    /\ SizeOf(eh.s, q) >= a
    /\ ~IsFreeIn(CurNext, q)
    /\ SizeOf(CurNext, q) >= a
    /\ SizeOf(CurNext, q) - DSIZE >= n

GrowthStep(q, n, a) ==
    GrowthFits(q, n, a, extend_heap(Cur, MAX(a, CHUNKSIZE) \div WSIZE, TRUE))

\* C15: an allocate that finds no fit and is granted growth moves the break by
\* exactly MAX(asize, CHUNKSIZE); the block extend_heap returns, merged with a
\* free block at the end of the heap if there was one, has at least the
\* adjusted size, and the allocate returns it allocated with room for the
\* request.
C15_GrowthSizedToFit ==
    [][(status = "ready" /\ last'.op = "malloc" /\ last'.grow = "ok")
          => GrowthStep(last'.ret, ReqOfNext(last'.ret),
                        AdjustedSize(ReqOfNext(last'.ret)))]_vars

\* the heap was grown although it ended in a free block: the block returned
\* begins before the region the provider added
C15_Witness ==
    /\ status = "ready"
    /\ last.op = "malloc" /\ last.grow = "ok" /\ last.ret \in Ptrs
    /\ last.ret + MAX(AdjustedSize(ReqOf(last.ret)), CHUNKSIZE) < brk
    /\ Cardinality(Ptrs) = 2

\* the state in which place runs inside the allocate step just taken: the
\* current one after a fit, the one extend_heap leaves after growth
PlacedIn(a) ==
    IF last'.grow = "ok"
    THEN extend_heap(Cur, MAX(a, CHUNKSIZE) \div WSIZE, TRUE).s
    ELSE Cur

\* what C16 says of placing t bytes at free block q of size c; before: the
\* members of the free list when place was called
PlaceOutcome(q, t, c, before) ==
    /\ c >= t
    /\ q \in before
    /\ ~IsFreeIn(CurNext, q)
    /\ IF c - t >= OVERHEAD
       THEN /\ SizeOf(CurNext, q) = t
            /\ IsFreeIn(CurNext, q + t)
            /\ SizeOf(CurNext, q + t) = c - t
            /\ Range(FreeSeqOf(CurNext)) = (before \ {q}) \cup {q + t}
       ELSE /\ SizeOf(CurNext, q) = c
            /\ Range(FreeSeqOf(CurNext)) = before \ {q}
    /\ NoDup(FreeSeqOf(CurNext))
    /\ \A b \in Range(FreeSeqOf(CurNext)) : SizeOf(CurNext, b) >= OVERHEAD

PlaceStep(q, t, pre) == PlaceOutcome(q, t, SizeOf(pre, q), Range(FreeSeqOf(pre)))

\* C16: an allocate step that places adjusted size t in a free block of size
\* c leaves, when c - t >= OVERHEAD, an allocated block of size t at the same
\* start followed by a free block of size c - t that is on the free list, and
\* otherwise the whole block allocated with size c and no new free block;
\* every free block then has at least the minimum size OVERHEAD.
C16_PlacementSplit ==
    [][(status = "ready" /\ status' = "ready" /\ last'.op = "malloc"
            /\ last'.ret # NULL)
          => PlaceStep(last'.ret, AdjustedSize(ReqOfNext(last'.ret)),
                       PlacedIn(AdjustedSize(ReqOfNext(last'.ret))))]_vars

\* a block was allocated whole: it is larger than the adjusted size of the
\* request but the leftover was too small to split off
C16_Witness ==
    /\ status = "ready"
    /\ last.op = "malloc" /\ last.grow = "none" /\ last.ret \in Ptrs
    /\ Size(last.ret) > AdjustedSize(ReqOf(last.ret))
    /\ Size(last.ret) - AdjustedSize(ReqOf(last.ret)) < OVERHEAD

\* block bp is linked in the free list of s: it is the head, or the next
\* link of a member leads to it
LinkedIn(s, bp) ==
    s.flp = bp \/ \E a \in Range(FreeSeqOf(s)) : NEXT_FREE(s, a) = bp

\* no state of the trace has bp marked allocated and still linked
NeverTaggedWhileLinked(trace, bp) ==
    \A i \in 1 .. Len(trace) : ~(~IsFreeIn(trace[i], bp) /\ LinkedIn(trace[i], bp))

\* C17: whenever place is given a block of the free list, on the split path
\* and on the no-split path, no state it passes through has the block's
\* header marked allocated while the block is still linked in the free list.
C17_RemovedBeforeTagged ==
    status = "ready" =>
        \A b \in Range(FreeSeq), n \in ReqSizes \ {0} :
            AdjustedSize(n) <= Size(b)
                => NeverTaggedWhileLinked(place_trace(Cur, b, AdjustedSize(n)), b)

\* the block of the heap scan that ends where block p begins, or NULL
PredOf(p) ==
    IF \E i \in 2 .. Len(Blocks) : Blocks[i] = p
    THEN Blocks[(CHOOSE i \in 2 .. Len(Blocks) : Blocks[i] = p) - 1]
    ELSE NULL

\* what C18 says of a step that freed p; prev, next: the physical neighbours
\* of p that were free (NULL: none, or not free)
MergedInto(r, size, gone) ==
    /\ IsFreeIn(CurNext, r)
    /\ GET(CurNext, HDRP(r)) = PACK(size, 0)
    /\ GET(CurNext, FTRP(CurNext, r)) = PACK(size, 0)
    /\ FTRP(CurNext, r) = r + size - DSIZE
    /\ Len(FreeSeqOf(CurNext)) >= 1
    /\ FreeSeqOf(CurNext)[1] = r
    /\ NoDup(FreeSeqOf(CurNext))
    /\ Range(FreeSeqOf(CurNext)) = (Range(FreeSeq) \ gone) \cup {r}
    /\ PREV_FREE(CurNext, r) = NULL

FreeMerges(p, prev, next) ==
    MergedInto(IF prev # NULL THEN prev ELSE p,
               Size(p) + (IF prev # NULL THEN Size(prev) ELSE 0)
                       + (IF next # NULL THEN Size(next) ELSE 0),
               {prev, next})

\* C18: a free of an outstanding block p leaves one free block that starts
\* at the physical predecessor of p if that was free and at p otherwise, whose
\* header and footer carry the sum of the sizes of p and of its free
\* neighbours; the neighbours merged are off the free list and the block is
\* on it once, at the head.  The first ordinary block has no predecessor.
C18_FreeCoalesces ==
    [][(status = "ready" /\ status' = "ready" /\ last'.op = "free"
            /\ last'.p # NULL)
          => /\ last'.p \in Range(Blocks)
             /\ ~IsFree(last'.p)
             /\ FreeMerges(last'.p,
                    IF PredOf(last'.p) # NULL /\ IsFree(PredOf(last'.p))
                    THEN PredOf(last'.p) ELSE NULL,
                    IF IsFree(NEXT_BLKP(Cur, last'.p))
                    THEN NEXT_BLKP(Cur, last'.p) ELSE NULL)]_vars

\* a block between two free blocks was freed: the free block at the head of
\* the list begins before it and ends behind it
C18_Witness ==
    /\ status = "ready"
    /\ last.op = "free" /\ last.p # NULL
    /\ Len(FreeSeq) >= 1
    /\ FreeSeq[1] < last.p
    /\ FreeSeq[1] + Size(FreeSeq[1]) > last.p + Size(last.p)

\* C19: after a successful init and after every call, the walk along the next
\* links from free_listp passes fewer than MaxWalk blocks, all different, no
\* link of which is NULL, and stops at the allocated prologue block; the prev
\* link of the head is NULL and the prev link of every other member is the
\* member before it; find_fit terminates for every request.
C19_ListWellFormed ==
    status = "ready" =>
        /\ free_listp # NULL
        /\ ListEndsAtPrologue
        /\ Len(FreeSeq) < MaxWalk
        /\ NoDup(FreeSeq)
        /\ \A i \in 1 .. Len(FreeSeq) : NEXT_FREE(Cur, FreeSeq[i]) # NULL
        /\ PREV_FREE(Cur, free_listp) = NULL
        /\ \A i \in 1 .. Len(FreeSeq) - 1 :
             PREV_FREE(Cur, FreeSeq[i + 1]) = FreeSeq[i]
        /\ \A n \in ReqSizes \ {0} : ~find_fit(Cur, AdjustedSize(n)).ub

\* a reallocate left two blocks on the list
C19_Witness ==
    /\ status = "ready"
    /\ last.op = "realloc"
    /\ Len(FreeSeq) = 2
    /\ PREV_FREE(Cur, FreeSeq[2]) = FreeSeq[1]

\* every write an operation made through a link of another block went to a
\* non-null word of the heap that is no header and lies in no allocated payload
LinkWritesOk(s) ==
    \A w \in s.lw : w.a # NULL /\ w.inheap /\ w.at \notin {"hdr", "pay"}

\* C20: in every state, whichever call comes next, each write that freelist
\* makes through the prev field of the old head and each write that
\* delete_block makes through the prev field of the successor and the next
\* field of the predecessor goes to a non-null word inside the heap that is
\* not the header of a block and not in the payload of an allocated block.
C20_LinkWritesInHeap ==
    /\ status = "uninit" =>
          \A ok2 \in BOOLEAN : LinkWritesOk(mm_init(Cur, TRUE, ok2).s)
    /\ status = "ready" =>
          /\ heap_listp = HeapLo
          /\ \A p \in Ptrs : LinkWritesOk(mm_free(Cur, p))
          /\ \A n \in ReqSizes, ok \in BOOLEAN :
               /\ LinkWritesOk(mm_malloc(Cur, n, ok).s)
               /\ \A p \in Ptrs : LinkWritesOk(mm_realloc(Cur, p, n, ok).s)

\* a block with no free neighbour was freed while the list was empty: it is
\* now the only member, inserted in front of the terminator
C20_Witness ==
    /\ status = "ready"
    /\ last.op = "free" /\ last.p # NULL
    /\ FreeSeq = <<last.p>>
    /\ ~IsFree(NEXT_BLKP(Cur, last.p))
    /\ PREV_FREE(Cur, PrologueOf(heap_listp)) = last.p


=============================================================================
